---- MODULE Spec2Model ----
(***************************************************************************)
(* Model of audit.py: the cargo-audit GitHub action.  A scan report is    *)
(* parsed into entries, a step summary is written, and (optionally) the   *)
(* entries are synchronised with the open issues of a GitHub repository:  *)
(* create / update per entry, then close the issues that are left over.   *)
(*                                                                         *)
(* Text is modelled as a sequence of tokens; every token stands for a     *)
(* fixed piece of text, and the tokens of ids and titles are cut so that  *)
(* one text starts with another exactly when its token sequence starts    *)
(* with the other's ("1.0.1" is <<"1.0", ".1">>).                          *)
(***************************************************************************)
EXTENDS Integers, Sequences, FiniteSets, TLC

VARIABLES
    report,           \* data: the parsed JSON report of cargo audit
    deny_warnings,    \* INPUT_DENY_WARNINGS == "true"
    create_issues,    \* INPUT_CREATE_ISSUES == "true"
    entries,          \* run(): the list of Entry objects
    step_summary,     \* the chunks written to GITHUB_STEP_SUMMARY, in order
    existing_issues,  \* GitHubClient.existing_issues (the working set), a class
                      \* attribute: empty when the process starts
    tracker,          \* the repository's open issues, in listing order
    next_url,         \* the url the repository gives to the next new issue
    requests,         \* every HTTP request sent so far, with its status
    calls,            \* the create_issue invocations made so far
    pc,               \* position of the control flow
    idx,              \* page number / loop index at the current position
    exit_code,        \* the argument of sys.exit, NoExit before
    fetched,          \* the working set as it was when the sweep began
    run_no            \* 1 for the first process, 2 for a re-run, ...

vars == <<report, deny_warnings, create_issues, entries, step_summary,
          existing_issues, tracker, next_url, requests, calls, pc, idx,
          exit_code, fetched, run_no>>

(***************************************************************************)
(* Bounds of the model.                                                    *)
(***************************************************************************)
MaxEntries == 2      \* findings in one report
MaxTracked == 2      \* open issues in the repository at the start
MaxRuns == 2         \* processes run one after the other on the same report
MaxCalls == 2        \* create_issue calls made on one client
MaxAssignees == 2    \* assignees requested for one issue

PageSize == 1        \* issues on one page of the listing (per_page, scaled down)

NoExit == -1

(***************************************************************************)
(* Helpers on sequences.                                                   *)
(***************************************************************************)
SeqsUpTo(S, n) == UNION {[1..k -> S] : k \in 0..n}

\* the sequences of at most n elements of S that repeat no element
DistinctSeqsUpTo(S, n) ==
    {q \in SeqsUpTo(S, n) : \A i, j \in 1..Len(q) : i # j => q[i] # q[j]}

RECURSIVE Flatten(_)
Flatten(ss) == IF ss = <<>> THEN <<>> ELSE Head(ss) \o Flatten(Tail(ss))

RECURSIVE Join(_, _)
\* sep.join(parts) for token sequences
Join(sep, parts) ==
    IF parts = <<>> THEN <<>>
    ELSE IF Len(parts) = 1 THEN parts[1]
    ELSE parts[1] \o sep \o Join(sep, Tail(parts))

RemoveAt(s, i) == SubSeq(s, 1, i - 1) \o SubSeq(s, i + 1, Len(s))

RECURSIVE FirstIndex(_, _, _)
\* least i >= from with s[i] = x, 0 if there is none
FirstIndex(s, x, from) ==
    IF from > Len(s) THEN 0
    ELSE IF s[from] = x THEN from
    ELSE FirstIndex(s, x, from + 1)

\* list.remove(x): drops the first element equal to x
ListRemove(s, x) ==
    LET i == FirstIndex(s, x, 1) IN IF i = 0 THEN s ELSE RemoveAt(s, i)

\* str.startswith
StartsWith(s, p) == Len(p) <= Len(s) /\ SubSeq(s, 1, Len(p)) = p

(***************************************************************************)
(* The scan report.  A finding is one element of vulnerabilities.list or  *)
(* of a warnings list.  "advisory" is <<>> when the key is absent and     *)
(* <<a>> when it holds the advisory a.                                     *)
(***************************************************************************)
Advisory(id, title, pkg) ==
    [id |-> id, title |-> title, description |-> <<"mail", "@", "host">>,
     package |-> pkg, url |-> <<"https://rustsec.org/advisories/">> \o id,
     aliases |-> <<<<"GHSA-", "1">>, <<"OTHER-", "1">>>>, related |-> <<>>]

Finding(adv, name, version, patched) ==
    [advisory |-> adv, package |-> [name |-> name, version |-> version],
     versions |-> [patched |-> patched, unaffected |-> <<>>]]

RustSec1 == <<"RUSTSEC-", "1">>
RustSec2 == <<"RUSTSEC-", "2">>
V10 == <<"1.0">>
V101 == <<"1.0", ".1">>

\* vulnerabilities: one advisory hitting two versions of a crate in the lock
\* file (same id(), different table)
VulnFindings ==
    { Finding(<<Advisory(RustSec1, <<"overflow">>, <<"a">>)>>, <<"a">>, V10, <<V101>>),
      Finding(<<Advisory(RustSec1, <<"overflow">>, <<"a">>)>>, <<"a">>, V101, <<>>) }

\* warnings["unmaintained"]: findings with an advisory
UnmaintainedFindings ==
    { Finding(<<Advisory(RustSec2, <<"unmaintained">>, <<"b">>)>>, <<"b">>, V10, <<>>) }

\* warnings["yanked"]: findings without an advisory; "Crate a 1.0" is a
\* prefix of "Crate a 1.0.1"
YankedFindings ==
    { Finding(<<>>, <<"a">>, V10, <<>>), Finding(<<>>, <<"a">>, V101, <<>>) }

\* The reports cargo audit can print: vulnerabilities.count is the length of
\* vulnerabilities.list; warnings is a mapping in key order, modelled as a
\* sequence of <<kind, list>> pairs; a list names a finding (an advisory and
\* a package version) once.
Reports ==
    { [vulnerabilities |-> [count |-> Len(vs), list |-> vs],
       warnings |-> <<<<"unmaintained", us>>, <<"yanked", ys>>>>] :
        <<vs, us, ys>> \in
            { t \in DistinctSeqsUpTo(VulnFindings, MaxEntries)
                    \X DistinctSeqsUpTo(UnmaintainedFindings, MaxEntries)
                    \X DistinctSeqsUpTo(YankedFindings, MaxEntries) :
                Len(t[1]) + Len(t[2]) + Len(t[3]) <= MaxEntries } }

(***************************************************************************)
(* class Entry                                                             *)
(***************************************************************************)
NoWarningType == "None"

Entry(entry, entry_type, warning_type) ==
    [entry |-> entry, entry_type |-> entry_type, warning_type |-> warning_type]

\* EntryType.icon
icon(entry_type) ==
    IF entry_type = "error" THEN "stop-sign"
    ELSE IF entry_type = "warning" THEN "warning-sign"
    ELSE ""

\* Entry.id
id(e) ==
    IF e.entry.advisory # <<>> THEN e.entry.advisory[1].id
    ELSE <<"Crate ">> \o e.entry.package.name \o <<" ">> \o e.entry.package.version

\* Entry._md_autolink_advisory_id
md_autolink_advisory_id(advisory_id) ==
    IF StartsWith(advisory_id, <<"GHSA-">>)
    THEN <<"[">> \o advisory_id \o <<"](https://github.com/advisories/">> \o advisory_id \o <<")">>
    ELSE IF StartsWith(advisory_id, <<"CVE-">>)
    THEN <<"[">> \o advisory_id \o <<"](https://nvd.nist.gov/vuln/detail/">> \o advisory_id \o <<")">>
    ELSE IF StartsWith(advisory_id, <<"RUSTSEC-">>)
    THEN <<"[">> \o advisory_id \o <<"](https://rustsec.org/advisories/">> \o advisory_id \o <<")">>
    ELSE advisory_id

Row(a, b) == <<"| ">> \o a \o <<" | ">> \o b \o <<" |\n">>

\* Entry._entry_table
entry_table(e) ==
    IF e.entry.advisory # <<>>
    THEN LET advisory == e.entry.advisory[1]
             v == e.entry.versions
         IN Row(<<"Details">>, <<>>)
            \o Row(<<"---">>, <<"---">>)
            \o Row(<<"Package">>, <<"BACKTICK">> \o advisory.package \o <<"BACKTICK">>)
            \o Row(<<"Version">>, <<"BACKTICK">> \o e.entry.package.version \o <<"BACKTICK">>)
            \o (IF e.warning_type # NoWarningType
                THEN Row(<<"Warning">>, <<e.warning_type>>) ELSE <<>>)
            \o Row(<<"URL">>, advisory.url)
            \o Row(<<"Patched Versions">>,
                   IF Len(v.patched) > 0 THEN Join(<<" OR ">>, v.patched) ELSE <<"n/a">>)
            \o (IF Len(v.unaffected) > 0
                THEN Row(<<"Unaffected Versions">>, Join(<<" OR ">>, v.unaffected))
                ELSE <<>>)
            \o (IF Len(advisory.aliases) > 0
                THEN Row(<<"Aliases">>,
                         Join(<<", ">>, [i \in 1..Len(advisory.aliases) |->
                                md_autolink_advisory_id(advisory.aliases[i])]))
                ELSE <<>>)
            \o (IF Len(advisory.related) > 0
                THEN Row(<<"Related Advisories">>,
                         Join(<<", ">>, [i \in 1..Len(advisory.related) |->
                                md_autolink_advisory_id(advisory.related[i])]))
                ELSE <<>>)
    ELSE id(e) \o <<" is yanked.\n", "Switch to a different version of ", "BACKTICK">>
         \o e.entry.package.name \o <<"BACKTICK", " to resolve this issue.\n">>

\* str.replace("@", "@" + zero-width joiner)
ReplaceAt(s) ==
    Flatten([i \in 1..Len(s) |-> IF s[i] = "@" THEN <<"@", "ZWJ">> ELSE <<s[i]>>])

\* Entry.format_as_markdown
format_as_markdown(e) ==
    IF e.entry.advisory # <<>>
    THEN LET advisory == e.entry.advisory[1] IN
         <<"## ", icon(e.entry_type), " ">> \o advisory.id \o <<": ">> \o advisory.title
         \o <<"\n\n">> \o entry_table(e) \o <<"\n\n">>
         \o ReplaceAt(advisory.description) \o <<"\n">>
    ELSE <<"## ", icon(e.entry_type), " ">> \o id(e) \o <<" is yanked.", "\n\n",
           "Switch to a different version of ", "BACKTICK">>
         \o e.entry.package.name \o <<"BACKTICK", " to resolve this issue.\n">>

\* class Issue
Issue(title, labels, assignees, body, rustsec_id) ==
    [title |-> title, labels |-> labels, assignees |-> assignees, body |-> body,
     rustsec_id |-> rustsec_id]

\* Entry.format_as_issue
format_as_issue(e, labels, assignees) ==
    IF e.entry.advisory # <<>>
    THEN LET advisory == e.entry.advisory[1] IN
         Issue(id(e) \o <<": ">> \o advisory.title, labels, assignees,
               entry_table(e) \o <<"\n\n">> \o advisory.description, id(e))
    ELSE Issue(id(e) \o <<" is yanked">>, labels, assignees,
               <<"Switch to a different version of ", "BACKTICK">> \o e.entry.package.name
               \o <<"BACKTICK", " to resolve this issue.">>, id(e))

(***************************************************************************)
(* create_summary and create_entries                                       *)
(***************************************************************************)
RECURSIVE SumLens(_)
SumLens(ws) == IF ws = <<>> THEN 0 ELSE Len(Head(ws)[2]) + SumLens(Tail(ws))

\* create_summary
create_summary(data) ==
    LET num_vulns == data.vulnerabilities.count
        num_warnings == SumLens(data.warnings)
        desc == Join(<<", ">>, [i \in 1..Len(data.warnings) |->
                        <<ToString(Len(data.warnings[i][2])), "x ", data.warnings[i][1]>>])
    IN (IF num_vulns = 0 THEN <<"No vulnerabilities found.">>
        ELSE IF num_vulns = 1 THEN <<"1 vulnerability found.">>
        ELSE <<ToString(num_vulns), " vulnerabilities found.">>)
       \o <<" ">>
       \o (IF num_warnings = 0 THEN <<"No warnings found.">>
           ELSE IF num_warnings = 1 THEN <<"1 warning found.">>
           ELSE <<ToString(num_warnings), " warnings found (">> \o desc \o <<").">>)

\* create_entries
create_entries(data) ==
    [i \in 1..Len(data.vulnerabilities.list) |->
        Entry(data.vulnerabilities.list[i], "error", NoWarningType)]
    \o Flatten([k \in 1..Len(data.warnings) |->
            [i \in 1..Len(data.warnings[k][2]) |->
                Entry(data.warnings[k][2][i], "warning", data.warnings[k][1])]])

(***************************************************************************)
(* The repository's issue tracker (the GitHub REST API), as the client    *)
(* sees it.  A tracked issue is [url, title, body]; only open issues are  *)
(* kept.  A request is recorded with the status the tracker answered.     *)
(***************************************************************************)
Tracked(url, title, body) == [url |-> url, title |-> title, body |-> body]

Req(kind, page, url, who, title, body, labels, assignees, status) ==
    [run |-> run_no, kind |-> kind, page |-> page, url |-> url, who |-> who,
     title |-> title, body |-> body, labels |-> labels, assignees |-> assignees,
     status |-> status]

ListStatuses == {200, 500}       \* GET  .../issues
ProbeStatuses == {204, 404}      \* GET  .../assignees/{assignee}
CreateStatuses == {201, 422}     \* POST .../issues
PatchStatuses == {200, 404}      \* PATCH issue url

\* The page `page` of the open issues and whether a "next" link comes with it.
ListPage(open, page) ==
    [json |-> SubSeq(open, (page - 1) * PageSize + 1,
                     IF page * PageSize < Len(open) THEN page * PageSize ELSE Len(open)),
     next |-> page * PageSize < Len(open)]

\* The open issues after the tracker has answered request r; the listing
\* shows the newest issue first.
TrackerAfter(open, r) ==
    IF r.kind = "create" /\ r.status = 201
    THEN <<Tracked(next_url, r.title, r.body)>> \o open
    ELSE IF r.kind = "update" /\ r.status = 200
    THEN [i \in 1..Len(open) |->
            IF open[i].url = r.url THEN Tracked(r.url, r.title, r.body) ELSE open[i]]
    ELSE IF r.kind = "close" /\ r.status = 200
    THEN SelectSeq(open, LAMBDA t : t.url # r.url)
    ELSE open

RECURSIVE TrackerAfterAll(_, _)
TrackerAfterAll(open, rs) ==
    IF rs = <<>> THEN open ELSE TrackerAfterAll(TrackerAfter(open, Head(rs)), Tail(rs))

NextUrlAfter(rs) ==
    next_url + Cardinality({i \in 1..Len(rs) : rs[i].kind = "create" /\ rs[i].status = 201})

(***************************************************************************)
(* class GitHubClient                                                      *)
(***************************************************************************)
\* the filter of _get_existing_issues
IsTrackedTitle(title) ==
    StartsWith(title, <<"RUSTSEC-">>) \/ StartsWith(title, <<"Crate ">>)

\* _get_existing_issues without the recursion on links["next"]
get_existing_issues_first_page(existing, status, response) ==
    IF status = 200
    THEN [existing_issues |-> existing \o SelectSeq(response.json,
                                            LAMBDA t : IsTrackedTitle(t.title)),
          more |-> FALSE]
    ELSE [existing_issues |-> existing, more |-> FALSE]

\* _get_existing_issues, one page: the working set after the response, and
\* whether the next page is fetched
get_existing_issues(existing, status, response) ==
    IF status = 200
    THEN [existing_issues |-> existing \o SelectSeq(response.json,
                                            LAMBDA t : IsTrackedTitle(t.title)),
          more |-> response.next]
    ELSE [existing_issues |-> existing, more |-> FALSE]

\* the scan of create_issue settling on the last matching issue
LastMatch(existing, rustsec_id, from) ==
    LET m == {k \in from..Len(existing) : StartsWith(existing[k].title, rustsec_id)}
    IN IF m = {} THEN 0 ELSE CHOOSE k \in m : \A j \in m : j <= k

RECURSIVE FirstMatch(_, _, _)
\* the first index >= from of an issue whose title starts with rustsec_id, or 0
FirstMatch(existing, rustsec_id, from) ==
    IF from > Len(existing) THEN 0
    ELSE IF StartsWith(existing[from].title, rustsec_id) THEN from
    ELSE FirstMatch(existing, rustsec_id, from + 1)

\* the assignee probes of create_issue; probe[i] is the status for assignee i
AssigneeProbes(issue, probe) ==
    [i \in 1..Len(issue.assignees) |->
        Req("assignee", 0, 0, issue.assignees[i], <<>>, <<>>, <<>>, <<>>, probe[i])]

\* valid_assignees with the probes' answers ignored
valid_assignees_unchecked(issue, probe) == issue.assignees

\* valid_assignees
valid_assignees(issue, probe) ==
    LET keep == {i \in 1..Len(issue.assignees) : probe[i] = 204}
        RECURSIVE Pick(_)
        Pick(i) == IF i > Len(issue.assignees) THEN <<>>
                   ELSE (IF i \in keep THEN <<issue.assignees[i]>> ELSE <<>>) \o Pick(i + 1)
    IN Pick(1)

\* GitHubClient.create_issue: the requests it sends, the working-set issue it
\* settled on (0: none) and the value it returns
create_issue(existing, issue, probe, status) ==
    LET k == FirstMatch(existing, issue.rustsec_id, 1) IN
    IF k # 0
    THEN IF existing[k].title = issue.title /\ existing[k].body = issue.body
         THEN [requests |-> <<>>, selected |-> existing[k].url, result |-> "None"]
         ELSE [requests |-> <<Req("update", 0, existing[k].url, "", issue.title,
                                  issue.body, <<>>, <<>>, status.patch)>>,
               selected |-> existing[k].url, result |-> status.patch]
    ELSE [requests |-> AssigneeProbes(issue, probe)
                       \o <<Req("create", 0, 0, "", issue.title, issue.body,
                                issue.labels, valid_assignees(issue, probe),
                                status.post)>>,
          selected |-> 0, result |-> status.post]

\* GitHubClient.close_issue
close_issue(issue, status) ==
    Req("close", 0, issue.url, "", <<>>, <<>>, <<>>, <<>>, status)

(***************************************************************************)
(* run()                                                                   *)
(***************************************************************************)
\* promote with the promotion left out
promote_nothing(es, deny) == es

\* lines 422-424: the deny-warnings promotion
promote(es, deny) ==
    IF deny THEN [i \in 1..Len(es) |-> [es[i] EXCEPT !.entry_type = "error"]] ELSE es

\* lines 427-433: what is written to the step summary
summary_chunks(data, es) ==
    <<<<"# Rustsec Advisories\n\n">>, create_summary(data), <<"\n">>>>
    \o Flatten([i \in 1..Len(es) |-> <<format_as_markdown(es[i]), <<"\n">>>>])

RECURSIVE sweep_entry(_, _, _)
\* lines 448-450 for one entry: the list is walked by position while matching
\* issues are removed from it
sweep_entry(existing, i, entry_id) ==
    IF i > Len(existing) THEN existing
    ELSE IF StartsWith(existing[i].title, entry_id)
    THEN sweep_entry(ListRemove(existing, existing[i]), i + 1, entry_id)
    ELSE sweep_entry(existing, i + 1, entry_id)

RECURSIVE sweep(_, _)
\* lines 447-450
sweep(existing, es) ==
    IF es = <<>> THEN existing
    ELSE sweep(sweep_entry(existing, 1, id(Head(es))), Tail(es))

\* lines 459-462
exit_status(es) ==
    IF \E i \in 1..Len(es) : es[i].entry_type = "error" THEN 1 ELSE 0

(***************************************************************************)
(* Initial states: a report printed by cargo audit, the two inputs, and   *)
(* the open issues of the repository (issues filed by earlier runs for    *)
(* any finding).                                                           *)
(***************************************************************************)
AllEntries ==
    {Entry(f, "error", NoWarningType) : f \in VulnFindings}
    \cup {Entry(f, "warning", "unmaintained") : f \in UnmaintainedFindings}
    \cup {Entry(f, "warning", "yanked") : f \in YankedFindings}

FiledContents ==
    {[title |-> format_as_issue(e, <<>>, <<>>).title,
      body |-> format_as_issue(e, <<>>, <<>>).body] : e \in AllEntries}

OtherContents == {[title |-> <<"Other: ", "flaky test">>, body |-> <<"text">>]}

\* open issues in listing order; the url stands for the issue's identity
Repositories(contents) ==
    {[i \in 1..Len(cs) |-> Tracked(i, cs[i].title, cs[i].body)] :
        cs \in DistinctSeqsUpTo(contents, MaxTracked)}

InitWith(contents) ==
    /\ report \in Reports
    /\ deny_warnings \in BOOLEAN
    /\ create_issues \in BOOLEAN
    /\ entries = <<>>
    /\ step_summary = <<>>
    /\ existing_issues = <<>>
    /\ tracker \in Repositories(contents)
    /\ next_url = Len(tracker) + 1
    /\ requests = <<>>
    /\ calls = <<>>
    /\ pc = "start"
    /\ idx = 0
    /\ exit_code = NoExit
    /\ fetched = <<>>
    /\ run_no = 1

Init == InitWith(FiledContents)

(***************************************************************************)
(* The steps of run().                                                     *)
(***************************************************************************)
\* lines 416-424: parse the report, build the entries, promote
Parse ==
    /\ pc = "start"
    /\ entries' = promote(create_entries(report), deny_warnings)
    /\ pc' = "summary"
    /\ UNCHANGED <<report, deny_warnings, create_issues, step_summary,
                   existing_issues, tracker, next_url, requests, calls, idx,
                   exit_code, fetched, run_no>>

\* WriteSummary with the writes left out
WriteSummaryNothing ==
    /\ pc = "summary"
    /\ pc' = IF create_issues THEN "fetch" ELSE "exit"
    /\ idx' = 1
    /\ UNCHANGED <<report, deny_warnings, create_issues, entries, step_summary,
                   existing_issues, tracker, next_url, requests, calls,
                   exit_code, fetched, run_no>>

\* lines 427-436: write the step summary, then branch on INPUT_CREATE_ISSUES
WriteSummary ==
    /\ pc = "summary"
    /\ step_summary' = step_summary \o summary_chunks(report, entries)
    /\ pc' = IF create_issues THEN "fetch" ELSE "exit"
    /\ idx' = 1
    /\ UNCHANGED <<report, deny_warnings, create_issues, entries,
                   existing_issues, tracker, next_url, requests, calls,
                   exit_code, fetched, run_no>>

\* lines 438, 247, 253-275: GitHubClient() fetches page idx; the tracker
\* answers with a status of `statuses`
FetchPage(statuses) ==
    /\ pc = "fetch"
    /\ \E status \in statuses :
        LET r == get_existing_issues(existing_issues, status, ListPage(tracker, idx)) IN
        /\ requests' = Append(requests,
                Req("list", idx, 0, "", <<>>, <<>>, <<>>, <<>>, status))
        /\ existing_issues' = r.existing_issues
        /\ pc' = IF r.more THEN "fetch" ELSE "create"
        /\ idx' = IF r.more THEN idx + 1 ELSE 1
    /\ UNCHANGED <<report, deny_warnings, create_issues, entries, step_summary,
                   tracker, next_url, calls, exit_code, fetched, run_no>>

\* the bookkeeping of one create_issue invocation
Call(issue, r) ==
    [run |-> run_no, issue |-> issue, selected |-> r.selected,
     result |-> r.result,
     first |-> Len(requests) + 1, last |-> Len(requests) + Len(r.requests)]

\* lines 440-442: create_issue for entry idx
CreateEntryIssue(posts, patches) ==
    /\ pc = "create"
    /\ idx <= Len(entries)
    /\ \E post \in posts, patch \in patches :
        LET issue == format_as_issue(entries[idx], <<>>, <<>>)
            r == create_issue(existing_issues, issue, <<>>,
                              [post |-> post, patch |-> patch])
        IN /\ requests' = requests \o r.requests
           /\ calls' = Append(calls, Call(issue, r))
           /\ tracker' = TrackerAfterAll(tracker, r.requests)
           /\ next_url' = NextUrlAfter(r.requests)
    /\ idx' = idx + 1
    /\ UNCHANGED <<report, deny_warnings, create_issues, entries, step_summary,
                   existing_issues, pc, exit_code, fetched, run_no>>

\* lines 446-454: drop the issues of the current entries from the working set
Sweep ==
    /\ pc = "create"
    /\ idx > Len(entries)
    /\ fetched' = existing_issues
    /\ existing_issues' = sweep(existing_issues, entries)
    /\ pc' = IF existing_issues' = <<>> THEN "exit" ELSE "close"
    /\ idx' = 1
    /\ UNCHANGED <<report, deny_warnings, create_issues, entries, step_summary,
                   tracker, next_url, requests, calls, exit_code, run_no>>

\* lines 455-456: close_issue for the idx-th remaining issue
CloseRemaining(patches) ==
    /\ pc = "close"
    /\ \E status \in patches :
        LET r == close_issue(existing_issues[idx], status) IN
        /\ requests' = Append(requests, r)
        /\ tracker' = TrackerAfter(tracker, r)
    /\ pc' = IF idx = Len(existing_issues) THEN "exit" ELSE "close"
    /\ idx' = idx + 1
    /\ UNCHANGED <<report, deny_warnings, create_issues, entries, step_summary,
                   existing_issues, next_url, calls, exit_code, fetched, run_no>>

\* lines 458-462
Exit ==
    /\ pc = "exit"
    /\ exit_code' = exit_status(entries)
    /\ pc' = "done"
    /\ UNCHANGED <<report, deny_warnings, create_issues, entries, step_summary,
                   existing_issues, tracker, next_url, requests, calls, idx,
                   fetched, run_no>>

\* CloseIssue with raise_for_status() on the response: an error status ends
\* the process with an uncaught exception
CloseIssueRaising ==
    /\ pc = "close"
    /\ \E status \in PatchStatuses :
        LET r == close_issue(existing_issues[idx], status) IN
        /\ requests' = Append(requests, r)
        /\ tracker' = TrackerAfter(tracker, r)
        /\ pc' = IF status # 200 THEN "done"
                 ELSE IF idx = Len(existing_issues) THEN "exit" ELSE "close"
        /\ exit_code' = IF status # 200 THEN 1 ELSE exit_code
    /\ idx' = idx + 1
    /\ UNCHANGED <<report, deny_warnings, create_issues, entries, step_summary,
                   existing_issues, next_url, calls, fetched, run_no>>

GetExistingIssues == FetchPage(ListStatuses)
CreateIssue == CreateEntryIssue(CreateStatuses, PatchStatuses)
CloseIssue == CloseRemaining(PatchStatuses)

\* One run of the action; the tracker may answer any request with an error.
Next ==
    \/ Parse
    \/ WriteSummary
    \/ GetExistingIssues
    \/ CreateIssue
    \/ Sweep
    \/ CloseIssue
    \/ Exit

Spec == Init /\ [][Next]_vars

(***************************************************************************)
(* Runs one after the other on the same report, with issue creation       *)
(* enabled and a tracker that applies every request.                      *)
(***************************************************************************)
\* The workflow runs the action again on the same report: a new process, a
\* new step summary, the class attribute existing_issues empty again.
Rerun ==
    /\ pc = "done"
    /\ run_no < MaxRuns
    /\ run_no' = run_no + 1
    /\ pc' = "start"
    /\ entries' = <<>>
    /\ step_summary' = <<>>
    /\ existing_issues' = <<>>
    /\ fetched' = <<>>
    /\ idx' = 0
    /\ exit_code' = NoExit
    /\ UNCHANGED <<report, deny_warnings, create_issues, tracker, next_url,
                   requests, calls>>

GetExistingIssuesOk == FetchPage({200})
CreateIssueApplied == CreateEntryIssue({201}, {200})
CloseIssueApplied == CloseRemaining({200})

InitRerun == Init /\ create_issues

NextRerun ==
    \/ Parse
    \/ WriteSummary
    \/ GetExistingIssuesOk
    \/ CreateIssueApplied
    \/ Sweep
    \/ CloseIssueApplied
    \/ Exit
    \/ Rerun

SpecRerun == InitRerun /\ [][NextRerun]_vars

(***************************************************************************)
(* create_issue called on a constructed client, one call after the other, *)
(* on any working set the constructor can leave.                          *)
(***************************************************************************)
ClientEntries ==
    {e \in AllEntries : e.warning_type # "unmaintained"}

ClientIssues == {format_as_issue(e, <<>>, <<>>) : e \in ClientEntries}

InitClient ==
    /\ report = [vulnerabilities |-> [count |-> 0, list |-> <<>>],
                 warnings |-> <<>>]
    /\ deny_warnings = FALSE
    /\ create_issues = TRUE
    /\ entries = <<>>
    /\ step_summary = <<>>
    /\ existing_issues \in Repositories(FiledContents)
    /\ tracker = existing_issues
    /\ next_url = Len(tracker) + 1
    /\ requests = <<>>
    /\ calls = <<>>
    /\ pc = "client"
    /\ idx = 0
    /\ exit_code = NoExit
    /\ fetched = <<>>
    /\ run_no = 1

\* gh_client.create_issue(issue), for any issue of `issues`
CallCreateIssue(issues) ==
    /\ \E issue \in issues, post \in CreateStatuses, patch \in PatchStatuses :
       \E probe \in [1..Len(issue.assignees) -> ProbeStatuses] :
        LET r == create_issue(existing_issues, issue, probe,
                              [post |-> post, patch |-> patch])
        IN /\ requests' = requests \o r.requests
           /\ calls' = Append(calls, Call(issue, r))
           /\ tracker' = TrackerAfterAll(tracker, r.requests)
           /\ next_url' = NextUrlAfter(r.requests)
    /\ UNCHANGED <<report, deny_warnings, create_issues, entries, step_summary,
                   existing_issues, idx, exit_code, fetched, run_no>>

ClientCreateIssue ==
    /\ pc = "client"
    /\ Len(calls) < MaxCalls
    /\ CallCreateIssue(ClientIssues)
    /\ pc' = pc

NextClient == ClientCreateIssue

SpecClient == InitClient /\ [][NextClient]_vars

(***************************************************************************)
(* One create_issue call with labels and assignees.                       *)
(***************************************************************************)
Logins == {"alice", "bob", "carol"}

AssigneeLists == DistinctSeqsUpTo(Logins, MaxAssignees)

AssignIssues ==
    {format_as_issue(e, <<"security">>, a) : e \in ClientEntries, a \in AssigneeLists}

CreateIssueAssigned ==
    /\ pc = "client"
    /\ CallCreateIssue(AssignIssues)
    /\ pc' = "called"

NextAssign == CreateIssueAssigned

SpecAssign == InitClient /\ [][NextAssign]_vars

(***************************************************************************)
(* Properties.                                                             *)
(***************************************************************************)
ReqIdx(kinds) == {i \in 1..Len(requests) : requests[i].kind \in kinds}

Failed(r) ==
    \/ r.kind = "list" /\ r.status # 200
    \/ r.kind = "create" /\ r.status # 201
    \/ r.kind \in {"update", "close"} /\ r.status # 200

\* the positions of the issues of ws whose title starts with no entry's id()
Stale(ws, es) ==
    {i \in 1..Len(ws) : \A j \in 1..Len(es) : ~StartsWith(ws[i].title, id(es[j]))}

ClosedUrls == {requests[i].url : i \in ReqIdx({"close"})}

SyncFinished == pc = "done" /\ create_issues

\* C1: when the sweep and the close loop of run() are over, the issues that
\* were sent a close request are exactly the issues of the working set whose
\* title starts with no current entry's id(); no issue whose title starts with
\* an entry's id() is sent one.
C1_ClosesExactlyStale ==
    SyncFinished => ClosedUrls = {fetched[i].url : i \in Stale(fetched, entries)}

\* C2: two successive create_issue calls with the same title, body and
\* identity, on a working set holding no issue whose title starts with that
\* identity, send one creation request in total, and the second call sends
\* neither a creation nor an update request.
C2_SecondCallSendsNothing ==
    (/\ Len(calls) = 2
     /\ calls[1].issue.title = calls[2].issue.title
     /\ calls[1].issue.body = calls[2].issue.body
     /\ calls[1].issue.rustsec_id = calls[2].issue.rustsec_id
     /\ FirstMatch(existing_issues, calls[1].issue.rustsec_id, 1) = 0)
    => /\ Cardinality(ReqIdx({"create"})) = 1
       /\ \A i \in calls[2].first..calls[2].last :
            requests[i].kind \notin {"create", "update"}

\* C3: after a first run whose requests the tracker all applied, a second run
\* on the same report, working on the tracker's open issues, sends no create,
\* no update and no close request.
C3_RerunSendsNothing ==
    \A i \in 1..Len(requests) :
        requests[i].run >= 2 => requests[i].kind \notin {"create", "update", "close"}

\* C4: run() exits with 1 exactly when some entry has severity ERROR after
\* the promotion step and with 0 otherwise; under deny-warnings no entry is a
\* WARNING when the exit status is decided, and the exit status is 1 as soon
\* as the report has a vulnerability or a warning.
C4_ExitStatus ==
    pc = "done" =>
        /\ exit_code \in {0, 1}
        /\ exit_code = 1 <=> \E i \in 1..Len(entries) : entries[i].entry_type = "error"
        /\ deny_warnings =>
            /\ \A i \in 1..Len(entries) : entries[i].entry_type # "warning"
            /\ (Len(report.vulnerabilities.list) + SumLens(report.warnings) > 0
                    => exit_code = 1)

\* C4 witness: a deny-warnings run on a report that has warnings only exits
\* with 1.
C4_Witness ==
    /\ pc = "done"
    /\ deny_warnings
    /\ report.vulnerabilities.list = <<>>
    /\ SumLens(report.warnings) > 0
    /\ exit_code = 1

\* C5: a create_issue call whose working set holds an issue with exactly the
\* issue's title and body (a title that starts with its identity) sends no
\* request at all, whatever else the working set holds and in whatever order.
C5_ExactCopyIsNoop ==
    \A c \in 1..Len(calls) :
        (\E k \in 1..Len(existing_issues) :
            /\ StartsWith(existing_issues[k].title, calls[c].issue.rustsec_id)
            /\ existing_issues[k].title = calls[c].issue.title
            /\ existing_issues[k].body = calls[c].issue.body)
        => calls[c].last < calls[c].first

\* the requested assignees whose probe, sent by call c, was answered 204
ProbedValid(c) ==
    LET a == calls[c].issue.assignees
        ok == {i \in 1..Len(a) : requests[calls[c].first + i - 1].status = 204}
    IN SelectSeq(a, LAMBDA x : \E i \in ok : a[i] = x)

NoMatch(c) ==
    \A k \in 1..Len(existing_issues) :
        ~StartsWith(existing_issues[k].title, calls[c].issue.rustsec_id)

\* C6: a create_issue call that finds no issue whose title starts with the
\* identity sends one probe per requested assignee, in order, and then exactly
\* one creation request, which carries the issue's title, body and labels and
\* the assignees whose probe succeeded, in the requested order; failed probes
\* never keep the creation request from being sent.
C6_CreateWithValidAssignees ==
    \A c \in 1..Len(calls) :
        NoMatch(c) =>
            LET a == calls[c].issue.assignees
                f == calls[c].first
                l == calls[c].last
            IN /\ l = f + Len(a)
               /\ \A i \in 1..Len(a) :
                    requests[f + i - 1].kind = "assignee" /\ requests[f + i - 1].who = a[i]
               /\ requests[l].kind = "create"
               /\ requests[l].title = calls[c].issue.title
               /\ requests[l].body = calls[c].issue.body
               /\ requests[l].labels = calls[c].issue.labels
               /\ requests[l].assignees = ProbedValid(c)

\* C6 witness: a call that created an issue although the probe of its first
\* assignee failed; the creation request names the second assignee only.
C6_Witness ==
    /\ Len(calls) = 1
    /\ NoMatch(1)
    /\ Len(calls[1].issue.assignees) = 2
    /\ requests[calls[1].first].status = 404
    /\ requests[calls[1].first + 1].status = 204
    /\ requests[calls[1].last].kind = "create"
    /\ requests[calls[1].last].assignees = <<calls[1].issue.assignees[2]>>

\* C7: whatever statuses the tracker answered, a run with issue creation
\* enabled has called create_issue once per entry, in order, has sent a close
\* request for every issue of the working set whose title starts with no
\* entry's id(), and exits by the entries' severities alone.
C7_FailuresDoNotAbort ==
    SyncFinished =>
        /\ Len(calls) = Len(entries)
        /\ \A i \in 1..Len(entries) :
            calls[i].issue = format_as_issue(entries[i], <<>>, <<>>)
        /\ \A i \in Stale(fetched, entries) : fetched[i].url \in ClosedUrls
        /\ exit_code = 1 <=> \E i \in 1..Len(entries) : entries[i].entry_type = "error"
        /\ exit_code = 0 <=> \A i \in 1..Len(entries) : entries[i].entry_type # "error"

\* C7 witness: a finished run in which a create or update request failed and
\* was followed by the request of a later entry, and a close request failed
\* and was followed by another close request.
C7_Witness ==
    /\ SyncFinished
    /\ \E i, j \in ReqIdx({"create", "update"}) : i < j /\ Failed(requests[i])
    /\ \E i, j \in ReqIdx({"close"}) : i < j /\ Failed(requests[i])

(***************************************************************************)
(* The constructor alone: GitHubClient() on any repository, one that also *)
(* holds issues that have nothing to do with the action.                  *)
(***************************************************************************)
InitFetch ==
    /\ InitWith(FiledContents \cup OtherContents)
    /\ create_issues
    /\ ~deny_warnings
    /\ report.vulnerabilities.list = <<>>
    /\ SumLens(report.warnings) = 0

NextFetch ==
    \/ Parse
    \/ WriteSummary
    \/ GetExistingIssues

SpecFetch == InitFetch /\ [][NextFetch]_vars

ConstructionDone == pc = "create" /\ calls = <<>>

TrackedOf(open) == SelectSeq(open, LAMBDA t : IsTrackedTitle(t.title))

\* C8 as stated: after construction the working set is every open issue of
\* the repository, over all pages, whose title starts with "RUSTSEC-" or
\* "Crate ", once each and in page order, and the last page fetched is one
\* that names no further page.
C8_WorkingSetIsAllPages ==
    ConstructionDone =>
        /\ existing_issues = TrackedOf(tracker)
        /\ ~ListPage(tracker, Len(requests)).next

\* C8 amended: the pages are requested in order from page 1; fetching stops at
\* the first page that has no "next" link or whose request is answered with a
\* status other than 200; the working set is the matching issues of the pages
\* answered with 200, once each and in page order.
C8_WorkingSetIsFetchedPages ==
    ConstructionDone =>
        LET n == Len(requests) IN
        /\ n >= 1
        /\ \A i \in 1..n : requests[i].kind = "list" /\ requests[i].page = i
        /\ \A i \in 1..(n - 1) : requests[i].status = 200 /\ ListPage(tracker, i).next
        /\ requests[n].status = 200 =>
            /\ ~ListPage(tracker, n).next
            /\ existing_issues = TrackedOf(tracker)
        /\ requests[n].status # 200 =>
            existing_issues = TrackedOf(SubSeq(tracker, 1, (n - 1) * PageSize))

\* C8 witness: the second page's request failed, and the working set holds
\* the first page's issues while the repository has more matching issues.
C8_Witness ==
    /\ ConstructionDone
    /\ Len(requests) = 2
    /\ requests[2].status # 200
    /\ existing_issues # <<>>
    /\ Len(existing_issues) < Len(TrackedOf(tracker))

\* C9: no tracker request is sent before the step summary is complete (the
\* header, the summary sentence and one block per entry, in order); the list
\* requests come before every other request; every close request comes after
\* create_issue has been called for every entry and after every probe, create
\* and update request; with issue creation disabled no request is sent.
C9_StepOrder ==
    /\ requests # <<>> =>
        /\ Len(step_summary) = 3 + 2 * Len(entries)
        /\ step_summary[1] = <<"# Rustsec Advisories\n\n">>
        /\ step_summary[2] = create_summary(report)
        /\ \A i \in 1..Len(entries) :
            step_summary[2 + 2 * i] = format_as_markdown(entries[i])
        /\ requests[1].kind = "list"
    /\ \A i, j \in 1..Len(requests) :
        i < j =>
            /\ requests[j].kind = "list" => requests[i].kind = "list"
            /\ requests[i].kind = "close" => requests[j].kind = "close"
    /\ ReqIdx({"close"}) # {} => Len(calls) = Len(entries)
    /\ ~create_issues => requests = <<>>

\* C9 witness: a finished run that listed, updated, created and closed.
C9_Witness ==
    /\ SyncFinished
    /\ ReqIdx({"list"}) # {}
    /\ ReqIdx({"update"}) # {}
    /\ ReqIdx({"create"}) # {}
    /\ ReqIdx({"close"}) # {}

\* C10: an issue that create_issue settled on for an entry (skipped as
\* unchanged or sent an update) is sent no close request in the same run.
C10_SelectedNotClosed ==
    \A c \in 1..Len(calls) :
        calls[c].selected # 0 => calls[c].selected \notin ClosedUrls

\* C10 witness: a finished run that closed an issue whose title starts with
\* an entry's id(), the sweep having stepped over it, while the issue that
\* create_issue settled on for that entry was not closed.
C10_Witness ==
    /\ SyncFinished
    /\ \E c \in 1..Len(calls), k \in 1..Len(fetched) :
        /\ calls[c].selected # 0
        /\ fetched[k].url # calls[c].selected
        /\ StartsWith(fetched[k].title, calls[c].issue.rustsec_id)
        /\ fetched[k].url \in ClosedUrls

====
